---- MODULE Spec2Model ----
(***************************************************************************)
(* Model of main.py (Chart of Becoming API): the /natal request handler    *)
(* and get_local_and_ut, the local-time-to-UT conversion.                  *)
(*                                                                         *)
(* Units.  Clock values and zone offsets are integer seconds.  ut_hours    *)
(* (a float number of hours in the code) is held as ut_secs, the same      *)
(* quantity times 3600.  utc_offset_hours is held in hundredths of an hour *)
(* (utc_offset_c), because the default path reports round(offset, 2).      *)
(* The minute values of the modelled local times are 0, 15, 30 and 45:     *)
(* for these hh + mm / 60.0 - 3.0 and the truncations of lines 75-76 are   *)
(* exact in binary floating point, so the integer arithmetic below is the  *)
(* float arithmetic of the code.  Zone offsets are whole minutes, as pytz  *)
(* builds them.                                                            *)
(***************************************************************************)
EXTENDS Integers, Sequences, FiniteSets, TLC

VARIABLES pc, req, status, naive, tz_name, attempts, resolverCalls,
          local_dt, tzinfo, jd_ut, served

vars == <<pc, req, status, naive, tz_name, attempts, resolverCalls,
          local_dt, tzinfo, jd_ut, served>>

\* Number of requests the server is followed through.
MaxRequests == 2

(***************************************************************************)
(* Module-level constants of main.py                                       *)
(***************************************************************************)
FORCE_UA_UTC3_PRE1990 == TRUE

(***************************************************************************)
(* JSON request bodies.  A field is absent (data.get gives None), a JSON   *)
(* number, a numeric string or a string that is not a number.  Coordinates *)
(* are in hundredths of a degree.                                          *)
(***************************************************************************)
Absent    == [kind |-> "none", v |-> 0]
Num(x)    == [kind |-> "num",  v |-> x]
Str(x)    == [kind |-> "str",  v |-> x]
Garbage   == [kind |-> "bad",  v |-> 0]

NoDate    == [kind |-> "none", y |-> 0, m |-> 0, d |-> 0]
BadDate   == [kind |-> "bad",  y |-> 0, m |-> 0, d |-> 0]
Date(y, m, d) == [kind |-> "ymd", y |-> y, m |-> m, d |-> d]

NoTime    == [kind |-> "none", hh |-> 0, mm |-> 0]
BadTime   == [kind |-> "bad",  hh |-> 0, mm |-> 0]
Time(h, m) == [kind |-> "hm", hh |-> h, mm |-> m]

NoOffset  == [kind |-> "none", secs |-> 0]
Offset(s) == [kind |-> "hhmm", secs |-> s]

\* "YYYY-MM-DD" strings sent by clients; the last two name no calendar day.
Dates ==
  { NoDate, BadDate,
    Date(1850, 6, 1), Date(1985, 1, 10), Date(1985, 3, 31), Date(1985, 7, 10),
    Date(1989, 12, 31), Date(1990, 1, 1), Date(1990, 6, 1),
    Date(2023, 1, 1), Date(2023, 3, 12), Date(2023, 11, 5),
    Date(2023, 2, 30), Date(2023, 13, 1) }

Hours   == {0, 1, 2, 3, 14, 23}
Minutes == {0, 15, 30, 45}

\* "HH:MM" strings sent by clients; 24:00 and 12:60 name no clock time.
Times ==
  { NoTime, BadTime, Time(24, 0), Time(12, 60) }
    \cup { Time(h, m) : h \in Hours, m \in Minutes }

\* (lat, lon) pairs sent by clients.
Coords ==
  { [lat |-> Num(5045),  lon |-> Num(3052)],     \* Kyiv
    [lat |-> Str(5045),  lon |-> Str(3052)],     \* Kyiv, as strings
    [lat |-> Num(4071),  lon |-> Num(-7400)],    \* New York
    [lat |-> Num(4071),  lon |-> Num(-16000)],   \* North Pacific
    [lat |-> Num(0),     lon |-> Num(-16000)],   \* equator, open ocean
    [lat |-> Str(0),     lon |-> Str(-16000)],   \* the same, as strings
    [lat |-> Num(5148),  lon |-> Num(0)],        \* Greenwich meridian
    [lat |-> Absent,     lon |-> Num(3052)],
    [lat |-> Num(5045),  lon |-> Absent],
    [lat |-> Garbage,    lon |-> Num(3052)],
    [lat |-> Num(5045),  lon |-> Garbage] }

\* Explicit "+HH:MM" / "-HH:MM" offsets a client may put in the body.
ExplicitOffsets == { NoOffset, Offset(7200), Offset(-19800) }

Bodies ==
  { [date |-> dt, time |-> tm, lat |-> c.lat, lon |-> c.lon, offset |-> o] :
      dt \in Dates, tm \in Times, c \in Coords, o \in ExplicitOffsets }

(***************************************************************************)
(* Python primitives used by the handler                                   *)
(***************************************************************************)
\* Truth value of a body field in "date and time and lat and lon".
Truthy(f) ==
  CASE f.kind = "none" -> FALSE
    [] f.kind = "num"  -> f.v # 0
    [] OTHER           -> TRUE

\* float(x) raises ValueError exactly on a string that is no number.
FloatRaises(f) == f.kind = "bad"

\* int(x): truncation toward zero of n / d, d > 0.
IntTrunc(n, d) == IF n >= 0 THEN n \div d ELSE -((-n) \div d)

Abs(x) == IF x < 0 THEN -x ELSE x

IsLeap(y) == (y % 4 = 0 /\ y % 100 # 0) \/ y % 400 = 0

DaysInMonth(y, m) ==
  CASE m \in {4, 6, 9, 11} -> 30
    [] m = 2 -> IF IsLeap(y) THEN 29 ELSE 28
    [] OTHER -> 31

\* datetime(y, m, d, hh, mm) accepts exactly these arguments.
ValidDateTime(y, m, d, hh, mm) ==
  /\ y \in 1..9999
  /\ m \in 1..12
  /\ d >= 1 /\ d <= DaysInMonth(y, m)
  /\ hh \in 0..23
  /\ mm \in 0..59

\* Lines 39-41 raise unless both strings parse and name a real date and time.
ParseRaises(dt, tm) ==
  \/ dt.kind # "ymd"
  \/ tm.kind # "hm"
  \/ ~ValidDateTime(dt.y, dt.m, dt.d, tm.hh, tm.mm)

\* round(x, 2) of x = secs / 3600 hours, in hundredths of an hour
\* (round half to even; 36 s is one hundredth of an hour).
Round2(secs) ==
  LET q == secs \div 36
      r == secs % 36
  IN  CASE r < 18 -> q
        [] r > 18 -> q + 1
        [] OTHER  -> IF q % 2 = 0 THEN q ELSE q + 1

(***************************************************************************)
(* Collaborators: timezonefinder, pytz and swisseph                        *)
(***************************************************************************)
None == "None"

\* tf.timezone_at(lat, lng): the identifiers the boundary dataset can give
\* for the modelled coordinates (releases of the dataset name Kyiv either
\* way); None where no zone covers the point.
TimezoneAt(lat, lon) ==
  CASE lat = 5045 /\ lon = 3052  -> {"Europe/Kyiv", "Europe/Kiev"}
    [] lat = 4071 /\ lon = -7400 -> {"America/New_York"}
    [] OTHER                     -> {None}

IsKyiv(z) == z \in {"Europe/Kyiv", "Europe/Kiev"}

\* The rule table on a modelled day: the offset in force at the start of the
\* day (first), at its end (second), and the wall-clock window [lo, hi) that
\* a transition on that day skips (first < second) or repeats (first > second).
Steady(off) == [first |-> off, second |-> off, lo |-> 0, hi |-> 0]

RuleTable(zone, y, m, d) ==
  IF IsKyiv(zone)
  THEN IF y < 1924 THEN Steady(7320)                        \* LMT/KMT +2:02
       ELSE IF y = 1985 /\ m = 3 /\ d = 31
       THEN [first |-> 10800, second |-> 14400, lo |-> 7200, hi |-> 10800]
       ELSE IF y \in {1985, 1990} /\ m \in 6..7 THEN Steady(14400)  \* MSD
       ELSE IF y <= 1990 THEN Steady(10800)                 \* MSK
       ELSE Steady(7200)                                    \* EET
  ELSE IF y < 1883 THEN Steady(-17760)                      \* LMT -4:56
       ELSE IF y = 2023 /\ m = 3 /\ d = 12
       THEN [first |-> -18000, second |-> -14400, lo |-> 7200, hi |-> 10800]
       ELSE IF y = 2023 /\ m = 11 /\ d = 5
       THEN [first |-> -14400, second |-> -18000, lo |-> 3600, hi |-> 7200]
       ELSE IF m \in 6..7 THEN Steady(-14400)               \* EDT
       ELSE Steady(-18000)                                  \* EST

Wall(n) == n.hh * 3600 + n.mm * 60

\* tz.localize(naive, is_dst): is_dst is "None" or "False".  With "None" a
\* skipped or repeated wall time raises; with "False" it is read in standard
\* time, the smaller of the two offsets.
Localize(zone, n, is_dst) ==
  LET r == RuleTable(zone, n.y, n.m, n.d)
      w == Wall(n)
      std == IF r.first < r.second THEN r.first ELSE r.second
  IN  IF r.first # r.second /\ w >= r.lo /\ w < r.hi
      THEN IF is_dst = "None"
           THEN [raised |-> TRUE,  off |-> 0]
           ELSE [raised |-> FALSE, off |-> std]
      ELSE [raised |-> FALSE,
            off |-> IF w < r.lo \/ r.first = r.second THEN r.first ELSE r.second]

\* Julian day number of a Gregorian calendar date (swe.julday, date part).
DayNumber(y, m, d) ==
  LET a  == (14 - m) \div 12
      yy == y + 4800 - a
      mo == m + 12 * a - 3
  IN  d + (153 * mo + 2) \div 5 + 365 * yy + yy \div 4 - yy \div 100
        + yy \div 400 - 32045

\* swe.julday(y, m, d, ut): the day number and the seconds added to it.
JulDay(y, m, d, secs) == [day |-> DayNumber(y, m, d), secs |-> secs]

\* The instant a (day, secs) pair denotes, with secs brought into one day.
Instant(j) == [day |-> j.day + j.secs \div 86400, secs |-> j.secs % 86400]

(***************************************************************************)
(* State                                                                   *)
(***************************************************************************)
NoBody   == [date |-> NoDate, time |-> NoTime, lat |-> Absent, lon |-> Absent,
             offset |-> NoOffset]
NoNaive  == [y |-> 0, m |-> 0, d |-> 0, hh |-> 0, mm |-> 0]
NoLocal  == [set |-> FALSE, off |-> 0]
NoStamp  == [dshift |-> 0, hour |-> 0, minute |-> 0, second |-> 0]
NoResult == [path |-> "none", tz_name |-> None, marked |-> FALSE,
             utc_offset_c |-> 0, ut_secs |-> 0, ut_dt |-> NoStamp]
NoJd     == [day |-> 0, secs |-> 0]

Init ==
  /\ pc = "idle"
  /\ req = NoBody
  /\ status = 0
  /\ naive = NoNaive
  /\ tz_name = None
  /\ attempts = 0
  /\ resolverCalls = 0
  /\ local_dt = NoLocal
  /\ tzinfo = NoResult
  /\ jd_ut = NoJd
  /\ served = 0

(***************************************************************************)
(* natal(), lines 105-119                                                  *)
(***************************************************************************)
\* A POST /natal arrives with some JSON body (line 105-110).
Receive ==
  /\ pc = "idle"
  /\ served < MaxRequests
  /\ \E b \in Bodies : req' = b
  /\ pc' = "check"
  /\ UNCHANGED <<status, naive, tz_name, attempts, resolverCalls, local_dt,
                 tzinfo, jd_ut, served>>

\* Line 112: every field must be truthy.
FieldsPresent(b) ==
  Truthy(b.date) /\ Truthy(b.time) /\ Truthy(b.lat) /\ Truthy(b.lon)

\* Lines 112-113.
CheckFields ==
  /\ pc = "check"
  /\ IF FieldsPresent(req)
     THEN pc' = "coords" /\ UNCHANGED status
     ELSE pc' = "done" /\ status' = 400
  /\ UNCHANGED <<req, naive, tz_name, attempts, resolverCalls, local_dt,
                 tzinfo, jd_ut, served>>

\* Lines 116-117, with the handler of line 174.
ParseCoords ==
  /\ pc = "coords"
  /\ IF FloatRaises(req.lat) \/ FloatRaises(req.lon)
     THEN pc' = "done" /\ status' = 500
     ELSE pc' = "parse" /\ UNCHANGED status
  /\ UNCHANGED <<req, naive, tz_name, attempts, resolverCalls, local_dt,
                 tzinfo, jd_ut, served>>

(***************************************************************************)
(* get_local_and_ut(), lines 33-97                                         *)
(***************************************************************************)
\* Lines 39-41; an exception leaves through line 174.
ParseDateTime ==
  /\ pc = "parse"
  /\ IF ParseRaises(req.date, req.time)
     THEN pc' = "done" /\ status' = 500 /\ UNCHANGED naive
     ELSE /\ pc' = "resolve"
          /\ naive' = [y |-> req.date.y, m |-> req.date.m, d |-> req.date.d,
                       hh |-> req.time.hh, mm |-> req.time.mm]
          /\ UNCHANGED status
  /\ UNCHANGED <<req, tz_name, attempts, resolverCalls, local_dt, tzinfo,
                 jd_ut, served>>

\* The unknown-zone result with the minutes dropped from ut_hours.
UnknownResult_NoMinutes(n) ==
  [path |-> "unknown", tz_name |-> None, marked |-> FALSE,
   utc_offset_c |-> 0,
   ut_secs |-> n.hh * 3600,
   ut_dt |-> [dshift |-> 0, hour |-> n.hh, minute |-> n.mm, second |-> 0]]

\* Lines 47-54: the result when no zone covers the point.
UnknownResult(n) ==
  [path |-> "unknown", tz_name |-> None, marked |-> FALSE,
   utc_offset_c |-> 0,
   ut_secs |-> Wall(n),
   ut_dt |-> [dshift |-> 0, hour |-> n.hh, minute |-> n.mm, second |-> 0]]

\* Lines 43-56.
Resolve ==
  /\ pc = "resolve"
  /\ \E z \in TimezoneAt(req.lat.v, req.lon.v) :
       /\ tz_name' = z
       /\ IF z = None
          THEN pc' = "chart" /\ tzinfo' = UnknownResult(naive)
          ELSE pc' = "localize" /\ UNCHANGED tzinfo
  /\ resolverCalls' = resolverCalls + 1
  /\ UNCHANGED <<req, status, naive, attempts, local_dt, jd_ut, served>>

\* Lines 59-61: tz.localize(naive, is_dst=None).
LocalizeFirst ==
  /\ pc = "localize"
  /\ LET r == Localize(tz_name, naive, "None")
     IN  IF r.raised
         THEN pc' = "retry" /\ UNCHANGED local_dt
         ELSE pc' = "convert" /\ local_dt' = [set |-> TRUE, off |-> r.off]
  /\ attempts' = attempts + 1
  /\ UNCHANGED <<req, status, naive, tz_name, resolverCalls, tzinfo, jd_ut,
                 served>>

\* The except clause asking for is_dst=None a second time.
LocalizeRetry_SameMode ==
  /\ pc = "retry"
  /\ LET r == Localize(tz_name, naive, "None")
     IN  IF r.raised
         THEN pc' = "done" /\ status' = 500 /\ UNCHANGED local_dt
         ELSE /\ pc' = "convert"
              /\ local_dt' = [set |-> TRUE, off |-> r.off]
              /\ UNCHANGED status
  /\ attempts' = attempts + 1
  /\ UNCHANGED <<req, naive, tz_name, resolverCalls, tzinfo, jd_ut, served>>

\* Line 62: tz.localize(naive, is_dst=False) in the except clause.
LocalizeRetry ==
  /\ pc = "retry"
  /\ LET r == Localize(tz_name, naive, "False")
     IN  IF r.raised
         THEN pc' = "done" /\ status' = 500 /\ UNCHANGED local_dt
         ELSE /\ pc' = "convert"
              /\ local_dt' = [set |-> TRUE, off |-> r.off]
              /\ UNCHANGED status
  /\ attempts' = attempts + 1
  /\ UNCHANGED <<req, naive, tz_name, resolverCalls, tzinfo, jd_ut, served>>

\* The override predicate with the year boundary taken inclusively.
OverrideFires_YearInclusive(label, y, off) ==
  /\ FORCE_UA_UTC3_PRE1990
  /\ label \in {"Europe/Kyiv", "Europe/Kiev"}
  /\ y <= 1990
  /\ Abs(off - 10800) * 10000 > 36

\* Lines 69-70: the override predicate.  abs(offset_hours - 3.0) > 1e-6,
\* with both sides multiplied by 3600 * 10^4.
OverrideFires(label, y, off) ==
  /\ FORCE_UA_UTC3_PRE1990
  /\ label \in {"Europe/Kyiv", "Europe/Kiev"}
  /\ y < 1990
  /\ Abs(off - 10800) * 10000 > 36

\* Lines 71-85: forced UTC+3.
OverrideResult(label, n) ==
  LET ut == Wall(n) - 10800
  IN  [path |-> "override", tz_name |-> label, marked |-> TRUE,
       utc_offset_c |-> 300,
       ut_secs |-> ut,
       ut_dt |-> [dshift |-> 0,
                  hour |-> IntTrunc(ut, 3600) % 24,
                  minute |-> (ut % 3600) \div 60,
                  second |-> 0]]

\* Lines 88-97: the rule-table conversion.
DefaultResult(label, n, off) ==
  LET utc == Wall(n) - off
      tod == utc % 86400
      stamp == [dshift |-> utc \div 86400,
                hour |-> tod \div 3600,
                minute |-> (tod % 3600) \div 60,
                second |-> tod % 60]
  IN  [path |-> "default", tz_name |-> label, marked |-> FALSE,
       utc_offset_c |-> Round2(off),
       ut_secs |-> stamp.hour * 3600 + stamp.minute * 60 + stamp.second,
       ut_dt |-> stamp]

\* Lines 64-97.
Convert ==
  /\ pc = "convert"
  /\ tzinfo' = IF OverrideFires(tz_name, naive.y, local_dt.off)
               THEN OverrideResult(tz_name, naive)
               ELSE DefaultResult(tz_name, naive, local_dt.off)
  /\ pc' = "chart"
  /\ UNCHANGED <<req, status, naive, tz_name, attempts, resolverCalls,
                 local_dt, jd_ut, served>>

(***************************************************************************)
(* natal(), lines 120-175                                                  *)
(***************************************************************************)
\* Lines 120-172: the Julian day from the local date and ut_hours, then the
\* chart; the response is 200.
Chart ==
  /\ pc = "chart"
  /\ jd_ut' = JulDay(req.date.y, req.date.m, req.date.d, tzinfo.ut_secs)
  /\ status' = 200
  /\ pc' = "done"
  /\ UNCHANGED <<req, naive, tz_name, attempts, resolverCalls, local_dt,
                 tzinfo, served>>

\* Lines 123-152 and 174-175: a swisseph call raises.
EphemerisFail ==
  /\ pc = "chart"
  /\ status' = 500
  /\ pc' = "done"
  /\ UNCHANGED <<req, naive, tz_name, attempts, resolverCalls, local_dt,
                 tzinfo, jd_ut, served>>

\* The response is sent and the request's locals go out of scope; the worker
\* waits for the next request.
Respond ==
  /\ pc = "done"
  /\ pc' = "idle"
  /\ served' = served + 1
  /\ req' = NoBody
  /\ status' = 0
  /\ naive' = NoNaive
  /\ tz_name' = None
  /\ attempts' = 0
  /\ resolverCalls' = 0
  /\ local_dt' = NoLocal
  /\ tzinfo' = NoResult
  /\ jd_ut' = NoJd

Next ==
  \/ Receive
  \/ CheckFields
  \/ ParseCoords
  \/ ParseDateTime
  \/ Resolve
  \/ LocalizeFirst
  \/ LocalizeRetry
  \/ Convert
  \/ Chart
  \/ EphemerisFail
  \/ Respond

Spec == Init /\ [][Next]_vars

(***************************************************************************)
(* Properties                                                              *)
(***************************************************************************)
\* get_local_and_ut has returned its dictionary.
Returned == tzinfo.path # "none"

\* The offset the conversion applied, in seconds.
OffsetUsed ==
  CASE tzinfo.path = "override" -> 10800
    [] tzinfo.path = "default"  -> local_dt.off
    [] OTHER                    -> 0

\* The override case of C1: a Kyiv/Kiev zone, a year before 1990 and a
\* rule-table offset other than three hours.
KyivBefore1990 ==
  /\ tz_name \in {"Europe/Kyiv", "Europe/Kiev"}
  /\ naive.y < 1990
  /\ local_dt.off # 10800

\* C1, parts shared by the original and the amended statement: the override
\* path is taken exactly in the override case, and then the result has
\* offset 3.0, ut_hours = hour + minute/60 - 3.0 and the marked identifier;
\* otherwise the identifier is the resolved one, unmarked.
C1_Override ==
  (Returned /\ local_dt.set) =>
     /\ (tzinfo.path = "override") <=> KyivBefore1990
     /\ tzinfo.tz_name = tz_name
     /\ tzinfo.marked <=> KyivBefore1990
     /\ KyivBefore1990 =>
          /\ tzinfo.utc_offset_c = 300
          /\ tzinfo.ut_secs = naive.hh * 3600 + naive.mm * 60 - 10800

C2_UnknownZonePassthrough ==
  (resolverCalls = 1 /\ tz_name = None) =>
     /\ Returned
     /\ pc \in {"chart", "done"}
     /\ tzinfo.tz_name = None
     /\ ~tzinfo.marked
     /\ tzinfo.utc_offset_c = 0
     /\ tzinfo.ut_secs = naive.hh * 3600 + naive.mm * 60

\* C2 witness: a finished request over open ocean with a nonzero minute.
C2_Witness ==
  /\ pc = "done" /\ status = 200
  /\ resolverCalls = 1 /\ tz_name = None
  /\ naive.mm # 0
  /\ tzinfo.path = "unknown"

\* C3: on every path the returned ut_hours lies in [0, 24).
C3_UtHoursInRange ==
  Returned => (tzinfo.ut_secs >= 0 /\ tzinfo.ut_secs < 86400)

\* C4: the returned ut_hours equals hour + minute/60 - utc_offset_hours
\* modulo 24 h, also when the rule-table offset is not a whole number of
\* hundredths of an hour.
C4_RoundTrip ==
  Returned =>
    (tzinfo.ut_secs + 36 * tzinfo.utc_offset_c
       - (naive.hh * 3600 + naive.mm * 60)) % 86400 = 0

\* A date or time string that is malformed or names no real date or time,
\* or a coordinate that is no number.
Malformed(b) ==
  \/ b.date.kind = "bad"
  \/ b.date.kind = "ymd" /\ ~(b.date.m \in 1..12 /\ b.date.d \in 1..31
                              /\ b.date.d <= DaysInMonth(b.date.y, b.date.m))
  \/ b.time.kind = "bad"
  \/ b.time.kind = "hm" /\ ~(b.time.hh \in 0..23 /\ b.time.mm \in 0..59)
  \/ b.lat.kind = "bad"
  \/ b.lon.kind = "bad"

\* C5: a request with a malformed date, time or coordinate is answered with
\* a client-input error (4xx), never with a server fault (5xx).
C5_MalformedIsClientError ==
  (pc = "done" /\ Malformed(req)) => (status >= 400 /\ status < 500)

\* C6: with an explicit signed HH:MM offset in the request, the conversion
\* uses that offset (utc_offset_hours and ut_hours = hour + minute/60 -
\* offset) and the resolver is never invoked.
C6_ExplicitOffsetUsed ==
  (req.offset.kind = "hhmm") =>
     /\ resolverCalls = 0
     /\ (pc = "done" /\ status = 200) =>
          /\ tzinfo.utc_offset_c * 36 = req.offset.secs
          /\ tzinfo.ut_secs = naive.hh * 3600 + naive.mm * 60 - req.offset.secs

\* The wall time is skipped or repeated by a transition of the zone on that
\* day, so localization with is_dst=None fails.
AtTransition ==
  LET r == RuleTable(tz_name, naive.y, naive.m, naive.d)
      w == naive.hh * 3600 + naive.mm * 60
  IN  tz_name # None /\ r.first # r.second /\ w >= r.lo /\ w < r.hi

\* The standard-time offset of the zone on that day.
StandardOffset ==
  LET r == RuleTable(tz_name, naive.y, naive.m, naive.d)
  IN  IF r.first < r.second THEN r.first ELSE r.second

\* C7: when localization with is_dst=None fails at a DST transition, the
\* function retries exactly once with is_dst=False and returns a normal
\* result from the retry; the failure never reaches the caller, and when
\* the first attempt succeeds there is no retry.
C7_RetryOnce ==
  /\ attempts <= 2
  /\ (pc \in {"convert", "chart", "done"} /\ tz_name # None) =>
        /\ local_dt.set
        /\ attempts = (IF AtTransition THEN 2 ELSE 1)
        /\ AtTransition => local_dt.off = StandardOffset
  /\ (pc \in {"chart", "done"} /\ tz_name # None) => Returned

\* C7 witness: a finished request whose first localization failed.
C7_Witness ==
  /\ pc = "done" /\ status = 200
  /\ AtTransition /\ attempts = 2
  /\ Returned

\* Every field is present with a valid value.
AllPresentValid(b) ==
  /\ b.date.kind = "ymd" /\ b.time.kind = "hm"
  /\ ~Malformed(b)
  /\ b.lat.kind \in {"num", "str"} /\ b.lat.v >= -9000 /\ b.lat.v <= 9000
  /\ b.lon.kind \in {"num", "str"} /\ b.lon.v >= -18000 /\ b.lon.v <= 18000

\* C8: the handler answers 400 only when a field is missing or malformed;
\* a request with four valid fields, latitude or longitude 0 included,
\* proceeds to the conversion.
C8_RejectOnlyMissingOrMalformed ==
  (pc = "done" /\ AllPresentValid(req)) => (status # 400 /\ Returned)

\* C9: on every path the hour and minute of ut_dt_iso are the local time of
\* day minus the UTC offset of the result, modulo 24 h; in the override path
\* that is local time minus 3 hours.  (The offset is taken before the default
\* path rounds it to two decimals for display.)
C9_StampMatchesOffset ==
  Returned =>
    tzinfo.ut_dt.hour * 60 + tzinfo.ut_dt.minute
      = ((naive.hh * 3600 + naive.mm * 60 - OffsetUsed) \div 60) % 1440

\* C10: the (local date, ut_hours) pair given to the Julian Day computation
\* denotes the instant local date-time minus the UTC offset used.
C10_JulianInstant ==
  (pc = "done" /\ status = 200) =>
     Instant(jd_ut) =
       Instant([day  |-> DayNumber(naive.y, naive.m, naive.d),
                secs |-> naive.hh * 3600 + naive.mm * 60 - OffsetUsed])

====
